---------------------------- MODULE Spec2Model ----------------------------
(***************************************************************************)
(* A model of big-collection-view: the LRU cache of item indices           *)
(* (src/js/lru-cache.js) and the virtualized list view that drives it      *)
(* (src/js/big-collection-view.js).                                        *)
(***************************************************************************)
EXTENDS Integers, Sequences, FiniteSets, TLC

(***************************************************************************)
(* Bounds of the model.                                                    *)
(***************************************************************************)
\* values put into the stand-alone cache are 1..MaxLruValue
MaxLruValue == 4
\* capacities of the stand-alone cache: 0..MaxCapacity at construction (0: the
\* default), 1..MaxCapacity to setCapacity
MaxCapacity == 3
\* number of put calls between two clears of the stand-alone cache
MaxTouches == 5
\* collections hold 0..MaxItems models
MaxItems == 5
\* the container's clientHeight is 0..MaxClientHeight pixels (1..MaxClientHeight
\* when the ledgers are checked)
MaxClientHeight == 1
\* an item element is estimatedItemHeight..estimatedItemHeight+MaxExtraHeight
\* pixels high when it is measured
MaxExtraHeight == 1
\* number of function requests submitted in one behaviour
MaxRequests == 2
\* collections hold 0..MaxSchedItems models when scheduling is checked
MaxSchedItems == 1
\* number of discard requests submitted when the ledgers are checked
MaxLedgerRequests == 1
\* the scroll offsets of the ledger check are the multiples of ScrollStep
ScrollStep == 4
\* estimatedItemHeight of the list view, in pixels (40 in ListView, scaled
\* down: 2 is the least height for which the divisions round)
EstimatedItemHeight == 2

(***************************************************************************)
(* Program constants.                                                      *)
(***************************************************************************)
\* var _capacity = options.capacity || 10
DefaultCapacity == 10
\* capacity: 10 of the view's _indicesCache
InitialCacheCapacity == 10
\* elementsOffset of the list view
ElementsOffset == 0
\* index === null: getIndexById found no model
Null == -1
\* the number that arithmetic on a missing map entry (undefined) gives
NaN == -2

VARIABLES
    lru,        \* a stand-alone LRUCache: its _array, _set and _capacity
    lruCall,    \* the last call made on lru: operation, argument, result,
                \* the _array before the call, the removeCallback invocations
    touches,    \* the values put into lru since it was made or last cleared
    options,    \* the view class: useIScroll, modelStoresExpandedState,
                \* emptyView (defined or not), noView (ids childView rejects)
    view,       \* the fields of the BigCollectionView object
    dom,        \* the collection, the container element, the animation
                \* frame callbacks and scroll animations that are pending
    hist        \* what the handlers did: the requests submitted and invoked,
                \* the completion callbacks called, whether the last
                \* handler threw

lruVars == <<lru, lruCall, touches>>

viewVars == <<options, view, dom, hist>>

vars == <<lru, lruCall, touches, options, view, dom, hist>>

(***************************************************************************)
(* Helpers on sequences.                                                   *)
(***************************************************************************)
Range(s) == {s[i] : i \in DOMAIN s}

Min(a, b) == IF a < b THEN a ELSE b

Max(a, b) == IF a > b THEN a ELSE b

\* Math.abs
Abs(x) == IF x < 0 THEN -x ELSE x

\* Array.prototype.indexOf, 1-based: the first position of value in array
indexOf(array, value) ==
    CHOOSE i \in DOMAIN array :
        array[i] = value /\ \A j \in DOMAIN array : array[j] = value => i <= j

\* the array without the element at position i
RemoveAt(array, i) ==
    SubSeq(array, 1, i - 1) \o SubSeq(array, i + 1, Len(array))

\* Array.prototype.splice(start) with one argument: the number of leading
\* elements that stay; a negative start counts from the end
spliceStart(array, start) ==
    IF start < 0 THEN Max(Len(array) + start, 0) ELSE Min(start, Len(array))

(***************************************************************************)
(* LRUCache (src/js/lru-cache.js).  A cache is a record                    *)
(* [_array, _set, _capacity]; _array holds the most recent value first.    *)
(***************************************************************************)
LRUCache(capacityOption) ==
    [_array    |-> << >>,
     _set      |-> {},
     _capacity |-> IF capacityOption = 0 THEN DefaultCapacity
                   ELSE capacityOption]

\* a put that leaves a value that is already cached where it is
putNoMoveToFront(cache, value) ==
    IF value \in cache._set
    THEN [cache |-> cache, removed |-> << >>, ret |-> FALSE]
    ELSE LET arr == <<value>> \o cache._array
             k   == spliceStart(arr, cache._capacity)
         IN  IF Len(arr) > cache._capacity
             THEN [cache |-> [cache EXCEPT !._array = SubSeq(arr, 1, k),
                                           !._set = @ \cup {value}],
                   removed |-> SubSeq(arr, k + 1, Len(arr)),
                   ret |-> TRUE]
             ELSE [cache |-> [cache EXCEPT !._array = arr,
                                           !._set = @ \cup {value}],
                   removed |-> << >>,
                   ret |-> TRUE]

\* a put that hands the removed values to the callback oldest first
putOldestFirst(cache, value) ==
    IF value \in cache._set
    THEN [cache |-> [cache EXCEPT !._array =
                        <<value>> \o RemoveAt(@, indexOf(@, value))],
          removed |-> << >>,
          ret |-> FALSE]
    ELSE LET arr == <<value>> \o cache._array
             k   == spliceStart(arr, cache._capacity)
             rem == SubSeq(arr, k + 1, Len(arr))
         IN  IF Len(arr) > cache._capacity
             THEN [cache |-> [cache EXCEPT !._array = SubSeq(arr, 1, k),
                                           !._set = @ \cup {value}],
                   removed |-> [i \in 1..Len(rem) |-> rem[Len(rem) + 1 - i]],
                   ret |-> TRUE]
             ELSE [cache |-> [cache EXCEPT !._array = arr,
                                           !._set = @ \cup {value}],
                   removed |-> << >>,
                   ret |-> TRUE]

\* a put that also trims the array when the value is already cached
putTrimOnHit(cache, value) ==
    LET arr == IF value \in cache._set
               THEN <<value>> \o RemoveAt(cache._array,
                                          indexOf(cache._array, value))
               ELSE <<value>> \o cache._array
        k   == spliceStart(arr, cache._capacity)
    IN  IF Len(arr) > cache._capacity
        THEN [cache |-> [cache EXCEPT !._array = SubSeq(arr, 1, k),
                                      !._set = @ \cup {value}],
              removed |-> SubSeq(arr, k + 1, Len(arr)),
              ret |-> value \notin cache._set]
        ELSE [cache |-> [cache EXCEPT !._array = arr,
                                      !._set = @ \cup {value}],
              removed |-> << >>,
              ret |-> value \notin cache._set]

\* this.put, up to the forEach over the removed values: the cache after the
\* splices and _set.add, the values the forEach will visit (in its order)
\* and the value returned when no callback throws
put(cache, value) ==
    IF value \in cache._set
    THEN [cache |-> [cache EXCEPT !._array =
                        <<value>> \o RemoveAt(@, indexOf(@, value))],
          removed |-> << >>,
          ret |-> FALSE]
    ELSE LET arr == <<value>> \o cache._array
             k   == spliceStart(arr, cache._capacity)
         IN  IF Len(arr) > cache._capacity
             THEN [cache |-> [cache EXCEPT !._array = SubSeq(arr, 1, k),
                                           !._set = @ \cup {value}],
                   removed |-> SubSeq(arr, k + 1, Len(arr)),
                   ret |-> TRUE]
             ELSE [cache |-> [cache EXCEPT !._array = arr,
                                           !._set = @ \cup {value}],
                   removed |-> << >>,
                   ret |-> TRUE]

\* one step of removed.forEach: _set.delete(element)
setDelete(cache, element) == [cache EXCEPT !._set = @ \ {element}]

\* this.clear
clear(cache) == [cache EXCEPT !._array = << >>, !._set = {}]

\* this.setCapacity
setCapacity(cache, value) == [cache EXCEPT !._capacity = value]

(***************************************************************************)
(* BigCollectionView (src/js/big-collection-view.js).                      *)
(*                                                                         *)
(* A handler is an operator on a record s that joins the fields of the    *)
(* object (view), of its surroundings (dom) and of the record of what      *)
(* happened (hist), with one more field: threw, set when a statement       *)
(* throws a TypeError (the rest of the handler is then skipped and what    *)
(* was assigned before stays).                                             *)
(***************************************************************************)
ItemIndices == 0..(MaxItems - 1)

ModelIds == 1..MaxItems

\* the collections: n models with the ids 1..n
Collections == {[i \in 1..n |-> i] : n \in 0..MaxItems}

ClientHeights == 0..MaxClientHeight

\* what el.height() can return for an item element
ElementHeights == EstimatedItemHeight..(EstimatedItemHeight + MaxExtraHeight)

\* Map: a function from the keys that are set
EmptyMap == << >>

MapHas(map, key) == key \in DOMAIN map

MapGet(map, key) == IF key \in DOMAIN map THEN map[key] ELSE NaN

MapSet(map, key, value) ==
    [k \in DOMAIN map \cup {key} |-> IF k = key THEN value ELSE map[k]]

MapDelete(map, key) == [k \in DOMAIN map \ {key} |-> map[k]]

\* a + b on numbers, one of which may be NaN
Plus(a, b) == IF a = NaN \/ b = NaN THEN NaN ELSE a + b

RECURSIVE SumOver(_, _)
SumOver(keys, map) ==
    IF keys = {} THEN 0
    ELSE LET k == CHOOSE x \in keys : TRUE
         IN  map[k] + SumOver(keys \ {k}, map)

CeilDiv(a, b) == (a + b - 1) \div b

\* the statement threw: the handler ends here
Throw(s) == [s EXCEPT !.threw = TRUE]

\* a TypeError: this._views.get(index) is undefined and is dereferenced
ThrowMissing(s, index) == [s EXCEPT !.threw = TRUE, !.missing = index]

\* the handler did what, for the index or callback which
Log(s, what, which) ==
    [s EXCEPT !.log = Append(@, [what |-> what, which |-> which])]

\* F(s), unless a statement before it threw
Then(s, F(_)) == IF s.threw THEN s ELSE F(s)

\* initialize: the fields of a new view
initialize ==
    [_initialized |-> FALSE,
     _frameRequested |-> FALSE,
     _forceRedraw |-> FALSE,
     _isEmptyView |-> FALSE,
     _visibleItems |-> <<0, 0>>,
     _clientHeight |-> 0,
     _views |-> {},
     _positionsMap |-> EmptyMap,
     _heightsMap |-> EmptyMap,
     _expandedHeightsMap |-> EmptyMap,
     _indicesCache |-> LRUCache(InitialCacheCapacity),
     _renderCallbackQueue |-> << >>,
     _scroll |-> [made |-> FALSE, y |-> 0, maxScrollY |-> 0],
     _scrollRefreshRequested |-> FALSE,
     _functionsQueue |-> << >>,
     _isFunctionActive |-> FALSE,
     \* this.$el: Backbone's own detached element, the empty set a failed
     \* lookup of the container gave, or the container
     el |-> "detached",
     \* this._$content exists
     _content |-> FALSE]

\* the surroundings of a new view
NewDom(collection, exists, clientHeight) ==
    [collection |-> collection,
     \* the element containerSelectorName names is in the document
     containerExists |-> exists,
     clientHeight |-> clientHeight,
     \* the container's native scrollTop
     scrollTop |-> 0,
     \* the css height given to _$content
     contentHeight |-> 0,
     \* callbacks handed to requestAnimationFrame that have not run
     frames |-> 0,
     \* jQuery's queue of scrollTop animations on the container
     animations |-> << >>]

NewHist ==
    [\* function requests submitted so far: their ids are 1..nextId
     nextId |-> 0,
     \* the requests invoked, in order; with each, what had happened since
     \* the invocation before it (gate) and the requests invoked before it
     \* whose completion callback had not been called (uncalled)
     invoked |-> << >>,
     \* since the last invocation: "none" (nothing was invoked yet),
     \* "invoked", "pass" (a frame pass began), "finished" (such a pass
     \* ran _onFunctionRequestFinished)
     gate |-> "none",
     \* invoked _scrollToElementByIndex requests with a callback and the
     \* index of a model of the collection
     withCallback |-> {},
     \* requests whose completion callback was called
     called |-> {},
     \* the last handler ended by throwing
     threw |-> FALSE,
     \* the index whose missing view the last handler dereferenced, or Null
     missing |-> Null]

\* the fields of a view, its surroundings and the history in one record
Joined(v, d, h) ==
    [_initialized |-> v._initialized,
     _frameRequested |-> v._frameRequested,
     _forceRedraw |-> v._forceRedraw,
     _isEmptyView |-> v._isEmptyView,
     _visibleItems |-> v._visibleItems,
     _clientHeight |-> v._clientHeight,
     _views |-> v._views,
     _positionsMap |-> v._positionsMap,
     _heightsMap |-> v._heightsMap,
     _expandedHeightsMap |-> v._expandedHeightsMap,
     _indicesCache |-> v._indicesCache,
     _renderCallbackQueue |-> v._renderCallbackQueue,
     _scroll |-> v._scroll,
     _scrollRefreshRequested |-> v._scrollRefreshRequested,
     _functionsQueue |-> v._functionsQueue,
     _isFunctionActive |-> v._isFunctionActive,
     el |-> v.el,
     _content |-> v._content,
     collection |-> d.collection,
     containerExists |-> d.containerExists,
     clientHeight |-> d.clientHeight,
     scrollTop |-> d.scrollTop,
     contentHeight |-> d.contentHeight,
     frames |-> d.frames,
     animations |-> d.animations,
     nextId |-> h.nextId,
     invoked |-> h.invoked,
     gate |-> h.gate,
     withCallback |-> h.withCallback,
     called |-> h.called,
     threw |-> FALSE,
     missing |-> Null,
     \* what the handler has done so far: views created and destroyed,
     \* callbacks called; kept during the handler only
     log |-> << >>]

\* the record at the start of a handler
World == Joined(view, dom, hist)

ViewOf(s) ==
    [_initialized |-> s._initialized,
     _frameRequested |-> s._frameRequested,
     _forceRedraw |-> s._forceRedraw,
     _isEmptyView |-> s._isEmptyView,
     _visibleItems |-> s._visibleItems,
     _clientHeight |-> s._clientHeight,
     _views |-> s._views,
     _positionsMap |-> s._positionsMap,
     _heightsMap |-> s._heightsMap,
     _expandedHeightsMap |-> s._expandedHeightsMap,
     _indicesCache |-> s._indicesCache,
     _renderCallbackQueue |-> s._renderCallbackQueue,
     _scroll |-> s._scroll,
     _scrollRefreshRequested |-> s._scrollRefreshRequested,
     _functionsQueue |-> s._functionsQueue,
     _isFunctionActive |-> s._isFunctionActive,
     el |-> s.el,
     _content |-> s._content]

DomOf(s) ==
    [collection |-> s.collection,
     containerExists |-> s.containerExists,
     clientHeight |-> s.clientHeight,
     scrollTop |-> s.scrollTop,
     contentHeight |-> s.contentHeight,
     frames |-> s.frames,
     animations |-> s.animations]

HistOf(s) ==
    [nextId |-> s.nextId,
     invoked |-> s.invoked,
     gate |-> s.gate,
     withCallback |-> s.withCallback,
     called |-> s.called,
     threw |-> s.threw,
     missing |-> s.missing]

\* the handler that ends in s has run
Done(s) ==
    /\ view' = ViewOf(s)
    /\ dom' = DomOf(s)
    /\ hist' = HistOf(s)
    /\ UNCHANGED <<options, lruVars>>

(***************************************************************************)
(* Heights, positions and the scroll offset.                               *)
(***************************************************************************)
_getEstimatedElementHeightWithOffset == EstimatedItemHeight + ElementsOffset

_getScrollThreshold == _getEstimatedElementHeightWithOffset

\* el.height() + this.elementsOffset, heights[index] being el.height() of
\* the element of the view at index
_getElementHeightWithOffset(heights, index) == heights[index] + ElementsOffset

\* how far the container can be scrolled: scrollHeight - clientHeight
ScrollLimit(contentHeight, clientHeight) == Max(contentHeight - clientHeight, 0)

\* this._$content.css('height', height); the browser keeps the native
\* scrollTop within the new scroll height
contentCssHeight(s, height) ==
    [s EXCEPT !.contentHeight = height,
              !.scrollTop = Min(@, ScrollLimit(height, s.clientHeight))]

\* sum of value - estimatedHeight over the expanded entries with a key in keys
heightOverdraft(s, keys) ==
    SumOver(keys, s._expandedHeightsMap)
        - Cardinality(keys) * _getEstimatedElementHeightWithOffset

_obtainItemPosition(s, index) ==
    LET prevIndex == index - 1
    IN  IF MapHas(s._positionsMap, prevIndex)
        THEN Plus(MapGet(s._positionsMap, prevIndex),
                  MapGet(s._heightsMap, prevIndex))
        ELSE index * _getEstimatedElementHeightWithOffset
               + heightOverdraft(s, {k \in DOMAIN s._expandedHeightsMap : k < index})

_getOptimalCacheCapacity(s) ==
    CeilDiv(s._clientHeight + _getScrollThreshold * 2,
            _getEstimatedElementHeightWithOffset) + 1

\* a _requestFrame that asks for a frame whether or not one was asked for
requestFrameAlways(s) ==
    [s EXCEPT !.frames = @ + 1, !._frameRequested = TRUE]

_requestFrame(s) ==
    IF ~s._frameRequested
    THEN [s EXCEPT !.frames = @ + 1, !._frameRequested = TRUE]
    ELSE s

addRenderCompleteCallback(s, kind, req) ==
    [Log(s, "added", [kind |-> kind, req |-> req])
     EXCEPT !._renderCallbackQueue = Append(@, [kind |-> kind, req |-> req])]

\* a _clear that leaves the render-complete callbacks in their queue
clearKeepingCallbacks(s) ==
    [s EXCEPT !._views = {},
              !._indicesCache = clear(@),
              !._positionsMap = EmptyMap,
              !._heightsMap = EmptyMap,
              !._expandedHeightsMap = EmptyMap]

_clear(s) ==
    [s EXCEPT !._views = {},
              !._indicesCache = clear(@),
              !._positionsMap = EmptyMap,
              !._heightsMap = EmptyMap,
              !._expandedHeightsMap = EmptyMap,
              !._renderCallbackQueue = << >>]

\* an _onIndexRemovedFromCache that leaves the view in the registry
removedKeepingView(s, index) ==
    IF index \notin s._views
    THEN ThrowMissing(Log(s, "removed", index), index)
    ELSE [Log(s, "removed", index)
          EXCEPT !._positionsMap = MapDelete(@, index),
                 !._heightsMap = MapDelete(@, index)]

\* the removeCallback of _indicesCache
_onIndexRemovedFromCache(s, index) ==
    IF index \notin s._views
    THEN ThrowMissing(Log(s, "removed", index), index)  \* view.$el of undefined
    ELSE [Log(s, "removed", index)
          EXCEPT !._views = @ \ {index},
                 !._positionsMap = MapDelete(@, index),
                 !._heightsMap = MapDelete(@, index)]

\* removed.forEach of put, on the view's cache
RECURSIVE removedForEach(_, _)
removedForEach(s, removed) ==
    IF removed = << >> \/ s.threw THEN s
    ELSE removedForEach(
            _onIndexRemovedFromCache(
                [Log(s, "evicted", Head(removed))
                 EXCEPT !._indicesCache = setDelete(@, Head(removed))],
                Head(removed)),
            Tail(removed))

\* this.childView(model) is null
childViewIsNull(s, index) == s.collection[index + 1] \in options.noView

\* the end of _createItem: the height is recorded
recordHeight(s, index, position, height) ==
    LET t == [s EXCEPT !._positionsMap = MapSet(@, index, position),
                       !._heightsMap = MapSet(@, index, height)]
    IN  IF height # _getEstimatedElementHeightWithOffset
        THEN [t EXCEPT !._expandedHeightsMap = MapSet(@, index, height)]
        ELSE [t EXCEPT !._expandedHeightsMap = MapDelete(@, index)]

_createItem(s0, index, heights) ==
    LET s == IF s0._isEmptyView
             THEN _clear([s0 EXCEPT !._isEmptyView = FALSE])
             ELSE s0
        position == _obtainItemPosition(s, index)
        height ==
            IF options.modelStoresExpandedState
                 /\ MapHas(s._expandedHeightsMap, index)
            THEN MapGet(s._expandedHeightsMap, index)
            ELSE _getElementHeightWithOffset(heights, index)
    IN  IF childViewIsNull(s, index) THEN s
        ELSE IF ~s._content THEN Throw(s)   \* this._$content is undefined
        ELSE recordHeight([Log(s, "created", index)
                           EXCEPT !._views = @ \cup {index}],
                          index, position, height)

_redrawItem(s, index) ==
    IF index \notin s._views
    THEN ThrowMissing(s, index)     \* view.render of undefined
    ELSE s

(***************************************************************************)
(* The function requests.                                                  *)
(***************************************************************************)
getIndexById(s, id) ==
    IF \E i \in DOMAIN s.collection : s.collection[i] = id
    THEN indexOf(s.collection, id) - 1
    ELSE Null

\* the for loop of _updatePositions, from index on; position is the local
\* variable of that name
RECURSIVE updatePositionsLoop(_, _, _, _)
updatePositionsLoop(s, index, position, heights) ==
    IF index > s._visibleItems[2] THEN s
    ELSE IF index \notin s._views
    THEN ThrowMissing(s, index)     \* view.$el of undefined
    ELSE LET height == _getElementHeightWithOffset(heights, index)
             t == [s EXCEPT
                     !._heightsMap = MapSet(@, index, height),
                     !._expandedHeightsMap =
                        IF height # _getEstimatedElementHeightWithOffset
                        THEN MapSet(@, index, height)
                        ELSE MapDelete(@, index)]
         IN  IF index = s._visibleItems[1]
             THEN updatePositionsLoop(t, index + 1,
                        Plus(_obtainItemPosition(t, index), height), heights)
             ELSE updatePositionsLoop(
                        [t EXCEPT !._positionsMap = MapSet(@, index, position)],
                        index + 1, Plus(position, height), heights)

_updatePositions(s, heights) ==
    IF Len(s.collection) = 0 THEN s
    ELSE LET t == updatePositionsLoop(s, s._visibleItems[1], NaN, heights)
             height == Len(t.collection) * _getEstimatedElementHeightWithOffset
                         + heightOverdraft(t, DOMAIN t._expandedHeightsMap)
             u == contentCssHeight(t, height)
         IN  IF t.threw THEN t
             ELSE IF options.useIScroll
             THEN _requestFrame([u EXCEPT !._scrollRefreshRequested = TRUE])
             ELSE u

\* the for loop of _discardExpandedStateById, from i on
RECURSIVE discardLoop(_, _, _, _, _)
discardLoop(s, index, i, maxIndex, position) ==
    IF i > maxIndex THEN s
    ELSE LET height == MapGet(s._heightsMap, i)
         IN  IF i = index
             THEN discardLoop(s, index, i + 1, maxIndex,
                              Plus(MapGet(s._positionsMap, i), height))
             ELSE LET t == [s EXCEPT !._positionsMap = MapSet(@, i, position)]
                  IN  IF i \notin s._views
                      THEN ThrowMissing(t, i)   \* view.$el of undefined
                      ELSE discardLoop(t, index, i + 1, maxIndex,
                                       Plus(position, height))

\* a _discardExpandedStateById that leaves the recorded height as it is
discardKeepingHeight(s, id, heights) ==
    LET index == getIndexById(s, id)
    IN  IF index = Null \/ ~MapHas(s._expandedHeightsMap, index)
        THEN _updatePositions(s, heights)
        ELSE _updatePositions(
                [s EXCEPT !._expandedHeightsMap = MapDelete(@, index)], heights)

_discardExpandedStateById(s, id, heights) ==
    LET index == getIndexById(s, id)
    IN  IF index = Null \/ ~MapHas(s._expandedHeightsMap, index)
        THEN _updatePositions(s, heights)
        ELSE LET t == [s EXCEPT !._expandedHeightsMap = MapDelete(@, index)]
                 u == [t EXCEPT !._heightsMap = MapSet(@, index,
                                    _getEstimatedElementHeightWithOffset)]
                 maxIndex == CHOOSE m \in DOMAIN u._positionsMap \cup {0} :
                                \A k \in DOMAIN u._positionsMap \cup {0} : k <= m
             IN  IF MapHas(t._heightsMap, index)
                 THEN Then(discardLoop(u, index, index, maxIndex, NaN),
                           LAMBDA v : _updatePositions(v, heights))
                 ELSE _updatePositions(t, heights)

\* _fixScrollPosition throws: this._scroll is null, or this.$el[0] undefined
fixScrollPositionThrows(s) ==
    IF options.useIScroll THEN ~s._scroll.made ELSE s.el = "none"

_fixScrollPosition(s, scrollTop) ==
    IF options.useIScroll
    THEN IF scrollTop > Abs(s._scroll.maxScrollY)
         THEN Abs(s._scroll.maxScrollY)
         ELSE scrollTop
    ELSE LET clientHeight == IF s.el = "container" THEN s.clientHeight ELSE 0
             scrollHeight == IF s.el = "container"
                             THEN Max(s.contentHeight, s.clientHeight) ELSE 0
         IN  IF scrollTop > scrollHeight - clientHeight
             THEN Max(scrollHeight - clientHeight, 0)
             ELSE scrollTop

\* callback: the id of the request whose caller gave a callback, or 0
_scrollToElementByIndex(s, index, callback) ==
    IF index = Null THEN s
    ELSE IF fixScrollPositionThrows(s) THEN Throw(s)
    ELSE LET position == _fixScrollPosition(s,
                            index * _getEstimatedElementHeightWithOffset)
         IN  IF options.useIScroll
             THEN LET t == [s EXCEPT !._scroll.y = -position]
                  IN  _requestFrame(IF callback # 0
                                    THEN addRenderCompleteCallback(t, "user", callback)
                                    ELSE t)
             ELSE IF s.containerExists
             THEN [s EXCEPT !.animations =
                      Append(@, [scrollTop |-> position, callback |-> callback])]
             ELSE s      \* $(containerSelectorName) is empty: nothing to animate

\* _isItemFullyVisible throws
isItemFullyVisibleThrows(s, index) ==
    /\ MapHas(s._positionsMap, index)
    /\ \/ s.el = "none"
       \/ options.useIScroll /\ ~s._scroll.made

_isItemFullyVisible(s, index) ==
    IF MapHas(s._positionsMap, index)
    THEN LET clientHeight == IF s.el = "container" THEN s.clientHeight ELSE 0
             scrollTop == IF options.useIScroll THEN Abs(s._scroll.y)
                          ELSE IF s.el = "container" THEN s.scrollTop ELSE 0
             min == scrollTop
             max == scrollTop + clientHeight
             posMin == MapGet(s._positionsMap, index)
             posMax == Plus(posMin, MapGet(s._heightsMap, index))
         IN  /\ posMin # NaN /\ posMax # NaN
             /\ min <= posMin /\ posMin <= max
             /\ min <= posMax /\ posMax <= max
    ELSE FALSE

_makeItemFullyVisible(s, index) ==
    IF index = Null THEN s
    ELSE IF isItemFullyVisibleThrows(s, index) THEN Throw(s)
    ELSE IF ~_isItemFullyVisible(s, index)
    THEN _scrollToElementByIndex(s, index, 0)
    ELSE s

\* this[request].apply(this, args)
apply(s, request, heights) ==
    CASE request.fn = "_updatePositions" -> _updatePositions(s, heights)
      [] request.fn = "_discardExpandedStateById" ->
            _discardExpandedStateById(s, request.arg, heights)
      [] request.fn = "_scrollToElementByIndex" ->
            _scrollToElementByIndex(
                [s EXCEPT !.withCallback =
                    IF /\ request.callback
                       /\ request.arg \in 0..(Len(s.collection) - 1)
                    THEN @ \cup {request.id} ELSE @],
                request.arg,
                IF request.callback THEN request.id ELSE 0)
      [] request.fn = "_makeItemFullyVisible" ->
            _makeItemFullyVisible(s, request.arg)

\* a _processFunctionRequest that does not look at _isFunctionActive
processWhileActive(s, heights) ==
    IF Len(s._functionsQueue) > 0
    THEN LET request == Head(s._functionsQueue)
             t == [s EXCEPT
                     !._isFunctionActive = TRUE,
                     !._functionsQueue = Tail(@),
                     !.invoked = Append(@,
                         [id |-> request.id, gate |-> s.gate,
                          uncalled |-> s.withCallback \ s.called]),
                     !.gate = "invoked"]
         IN  Then(apply(t, request, heights),
                  LAMBDA u : _requestFrame(
                      addRenderCompleteCallback(u, "finish", request.id)))
    ELSE s

_processFunctionRequest(s, heights) ==
    IF ~s._isFunctionActive /\ Len(s._functionsQueue) > 0
    THEN LET request == Head(s._functionsQueue)
             t == [s EXCEPT
                     !._isFunctionActive = TRUE,
                     !._functionsQueue = Tail(@),
                     !.invoked = Append(@,
                         [id |-> request.id, gate |-> s.gate,
                          uncalled |-> s.withCallback \ s.called]),
                     !.gate = "invoked"]
         IN  Then(apply(t, request, heights),
                  LAMBDA u : _requestFrame(
                      addRenderCompleteCallback(u, "finish", request.id)))
    ELSE s

_addFunctionRequest(s, fn, arg, callback, heights) ==
    _processFunctionRequest(
        [s EXCEPT !._functionsQueue =
                    Append(@, [fn |-> fn, arg |-> arg, callback |-> callback,
                               id |-> s.nextId + 1]),
                  !.nextId = @ + 1],
        heights)

_onFunctionRequestFinished(s, heights) ==
    _processFunctionRequest(
        [s EXCEPT !._isFunctionActive = FALSE,
                  !.gate = IF @ = "pass" THEN "finished" ELSE @],
        heights)

\* data.callback.call(data.context)
callCallback(s, data, heights) ==
    IF data.kind = "finish"
    THEN _onFunctionRequestFinished(Log(s, "called", data), heights)
    ELSE [Log(s, "called", data) EXCEPT !.called = @ \cup {data.req}]

\* the for loop of _fireRenderCompleteCallbacks, from i (1-based) to n
RECURSIVE fireLoop(_, _, _, _)
fireLoop(s, i, n, heights) ==
    IF i > n \/ s.threw THEN s
    ELSE fireLoop(callCallback(s, s._renderCallbackQueue[i], heights),
                  i + 1, n, heights)

_fireRenderCompleteCallbacks(s, heights) ==
    IF Len(s._renderCallbackQueue) > 0
    THEN LET n == Len(s._renderCallbackQueue)
         IN  Then(fireLoop(Log(s, "firing", s._renderCallbackQueue),
                           1, n, heights),
                  LAMBDA t : [t EXCEPT !._renderCallbackQueue =
                                          SubSeq(@, n + 1, Len(@))])
    ELSE s

(***************************************************************************)
(* The frame pass.                                                         *)
(***************************************************************************)
_updateClientHeight(s) ==
    IF s.el = "none" THEN Throw(s)      \* this.$el[0] is undefined
    ELSE LET clientHeight == IF s.el = "container" THEN s.clientHeight ELSE 0
             t == [s EXCEPT !._clientHeight = clientHeight]
             u == IF s._clientHeight # clientHeight
                  THEN [t EXCEPT !._indicesCache =
                            setCapacity(@, _getOptimalCacheCapacity(t))]
                  ELSE s
         IN  [u EXCEPT !._clientHeight = 0]

\* _getVisibleItems throws: this.$el[0] is undefined, or this._scroll is null
getVisibleItemsThrows(s) ==
    \/ s.el = "none"
    \/ options.useIScroll /\ ~s._scroll.made

\* a _getVisibleItems that does not keep the top index at or above 0
getVisibleItemsNoFloor(s) ==
    LET clientHeight == IF s.el = "container" THEN s.clientHeight ELSE 0
        scrollTop == IF options.useIScroll THEN Abs(s._scroll.y)
                     ELSE IF s.el = "container" THEN s.scrollTop ELSE 0
        itemHeight == _getEstimatedElementHeightWithOffset
        threshold == _getScrollThreshold
        min == (scrollTop - threshold) \div itemHeight
        max == (scrollTop + clientHeight + threshold) \div itemHeight
    IN  IF getVisibleItemsThrows(s) THEN Throw(s)
        ELSE [Log(s, "ranged", <<min, Min(max, Len(s.collection) - 1)>>)
              EXCEPT !._visibleItems =
                            <<min, Min(max, Len(s.collection) - 1)>>]

_getVisibleItems(s) ==
    LET clientHeight == IF s.el = "container" THEN s.clientHeight ELSE 0
        scrollTop == IF options.useIScroll THEN Abs(s._scroll.y)
                     ELSE IF s.el = "container" THEN s.scrollTop ELSE 0
        itemHeight == _getEstimatedElementHeightWithOffset
        threshold == _getScrollThreshold
        min == (scrollTop - threshold) \div itemHeight
        max == (scrollTop + clientHeight + threshold) \div itemHeight
    IN  IF getVisibleItemsThrows(s) THEN Throw(s)
        ELSE [Log(s, "ranged",
                  <<Max(min, 0), Min(max, Len(s.collection) - 1)>>)
              EXCEPT !._visibleItems =
                            <<Max(min, 0), Min(max, Len(s.collection) - 1)>>]

_createEmptyView(s) ==
    LET t == _clear([s EXCEPT !._isEmptyView = TRUE])
    IN  IF ~options.emptyView THEN t
        ELSE IF ~t._content THEN Throw(t)   \* this._$content is undefined
        ELSE t

\* the for loop of _update, from index on
RECURSIVE updateLoop(_, _, _)
updateLoop(s, index, heights) ==
    IF s.threw \/ index > s._visibleItems[2] THEN s
    ELSE LET p == put(s._indicesCache, index)
             t == removedForEach([s EXCEPT !._indicesCache = p.cache],
                                 p.removed)
         IN  updateLoop(
                IF t.threw THEN t
                ELSE IF p.ret THEN _createItem(t, index, heights)
                ELSE IF t._forceRedraw THEN _redrawItem(t, index)
                ELSE t,
                index + 1, heights)

\* this._scroll.refresh(): IScroll measures the wrapper and the scroller
\* again and brings y back within the new maxScrollY
scrollRefresh(s) ==
    IF ~s._scroll.made THEN Throw(s)
    ELSE LET maxScrollY == -ScrollLimit(s.contentHeight, s.clientHeight)
         IN  [s EXCEPT !._scroll.maxScrollY = maxScrollY,
                       !._scroll.y = Max(@, maxScrollY)]

_update(s0, heights) ==
    LET s == [s0 EXCEPT !._frameRequested = FALSE,
                        !.gate = IF @ = "invoked" THEN "pass" ELSE @]
        items == IF Len(s.collection) = 0
                 THEN _createEmptyView(s)
                 ELSE LET t == Then(_updateClientHeight(s), _getVisibleItems)
                      IN  Then(t, LAMBDA u :
                                    updateLoop(u, u._visibleItems[1], heights))
        refreshed == Then(items, LAMBDA t :
                        IF options.useIScroll /\ t._scrollRefreshRequested
                        THEN scrollRefresh(
                                [t EXCEPT !._scrollRefreshRequested = FALSE])
                        ELSE t)
        fired == Then(refreshed, LAMBDA t :
                        _fireRenderCompleteCallbacks(
                            [t EXCEPT !._forceRedraw = FALSE], heights))
    IN  fired

(***************************************************************************)
(* Attaching, rendering, collection changes, scrolling.                    *)
(***************************************************************************)
_onAttach(s) ==
    IF s._initialized THEN s
    ELSE IF ~s.containerExists THEN [s EXCEPT !.el = "none"]
    ELSE LET t == contentCssHeight(
                    [s EXCEPT !.el = "container", !._content = TRUE],
                    Len(s.collection) * _getEstimatedElementHeightWithOffset)
             u == IF options.useIScroll
                  THEN [t EXCEPT !._scroll =
                          [made |-> TRUE, y |-> 0,
                           maxScrollY |->
                              -ScrollLimit(t.contentHeight, t.clientHeight)]]
                  ELSE t
         IN  [_updateClientHeight(u) EXCEPT !._initialized = TRUE]

render(s) == _requestFrame(_onAttach(s))

refresh(s) == _requestFrame([s EXCEPT !._forceRedraw = TRUE])

_onCollectionChanged(s) ==
    IF ~s._initialized THEN s
    ELSE render([contentCssHeight(_clear(s),
                    Len(s.collection) * _getEstimatedElementHeightWithOffset)
                 EXCEPT !._scrollRefreshRequested = TRUE])

\* enableScrollEnd is false
_onScroll(s) == _requestFrame(s)

(***************************************************************************)
(* The view and its surroundings: one action per call or event.            *)
(***************************************************************************)
\* the state after construction, with one of the given option records
InitView(optionRecords) ==
    /\ options \in optionRecords
    /\ view = initialize
    /\ dom = NewDom(<< >>, FALSE, 0)
    /\ hist = NewHist
    /\ lru = LRUCache(0)
    /\ lruCall = [op |-> "new", arg |-> 0, ret |-> FALSE,
                  pre |-> << >>, removed |-> << >>]
    /\ touches = << >>

\* the indices of the stored visible range
VisibleIndices(s) == s._visibleItems[1]..s._visibleItems[2]

\* the indices whose elements a function request submitted now measures
RequestMeasures(measures) ==
    IF measures /\ ~view._isFunctionActive /\ view._functionsQueue = << >>
         /\ Len(dom.collection) > 0
    THEN (view._visibleItems[1]..view._visibleItems[2]) \cap view._views
    ELSE {}

\* the indices whose elements the next frame pass can measure
FrameMeasures ==
    LET s == World
        t == _getVisibleItems(s)
    IN  IF Len(dom.collection) = 0 \/ t.threw THEN {}
        ELSE IF /\ view._functionsQueue = << >>
                /\ ~view._isEmptyView
                /\ \A r \in DOMAIN view._renderCallbackQueue :
                      view._renderCallbackQueue[r].kind # "finish"
                /\ VisibleIndices(t) \subseteq view._indicesCache._set
        THEN {}
        ELSE VisibleIndices(t)

Render == Done(render(World))

Attach == Done(_onAttach(World))

Refresh == Done(refresh(World))

Submit(fn, arg, callback, measures) ==
    /\ hist.nextId < MaxRequests
    /\ \E heights \in [RequestMeasures(measures) -> ElementHeights] :
          Done(_addFunctionRequest(World, fn, arg, callback, heights))

UpdatePositions == Submit("_updatePositions", Null, FALSE, TRUE)

DiscardExpandedStateById(id) ==
    Submit("_discardExpandedStateById", id, FALSE, TRUE)

ScrollToElementByIndex(index, callback) ==
    Submit("_scrollToElementByIndex", index, callback, FALSE)

ScrollToElementById(id, callback) ==
    ScrollToElementByIndex(getIndexById(World, id), callback)

MakeItemFullyVisibleByIndex(index) ==
    Submit("_makeItemFullyVisible", index, FALSE, FALSE)

MakeItemFullyVisibleById(id) ==
    MakeItemFullyVisibleByIndex(getIndexById(World, id))

\* the collection triggers 'update' or 'reset'
CollectionChanged(collection) ==
    /\ collection # dom.collection
    /\ Done(_onCollectionChanged(
            [World EXCEPT !.collection = collection]))

\* the user scrolls the list
Scroll(y) ==
    /\ view._initialized
    /\ IF options.useIScroll
       THEN /\ -y >= view._scroll.maxScrollY
            /\ -y # view._scroll.y
            /\ Done(_onScroll([World EXCEPT !._scroll.y = -y]))
       ELSE /\ y <= ScrollLimit(dom.contentHeight, dom.clientHeight)
            /\ y # dom.scrollTop
            /\ Done(_onScroll([World EXCEPT !.scrollTop = y]))

\* the container gets another height
Resize(clientHeight) ==
    /\ dom.containerExists
    /\ clientHeight # dom.clientHeight
    /\ dom' = [dom EXCEPT
                !.clientHeight = clientHeight,
                !.scrollTop = Min(@, ScrollLimit(dom.contentHeight, clientHeight))]
    /\ UNCHANGED <<options, view, hist, lruVars>>

\* the container element is added to the document
ContainerAdded(clientHeight) ==
    /\ ~dom.containerExists
    /\ dom' = [dom EXCEPT !.containerExists = TRUE,
                          !.clientHeight = clientHeight]
    /\ UNCHANGED <<options, view, hist, lruVars>>

\* the browser runs a callback given to requestAnimationFrame
AnimationFrame ==
    /\ dom.frames > 0
    /\ \E heights \in [FrameMeasures -> ElementHeights] :
          Done(_update([World EXCEPT !.frames = @ - 1], heights))

\* the first scrollTop animation of the container ends: the scroll offset is
\* the target, a scroll event reaches the view, the callback is called
AnimationComplete ==
    /\ dom.animations # << >>
    /\ LET a == Head(dom.animations)
           s == [World EXCEPT !.animations = Tail(@)]
           y == Min(a.scrollTop, ScrollLimit(s.contentHeight, s.clientHeight))
           t == [s EXCEPT !.scrollTop = y]
           u == IF y # s.scrollTop /\ s._initialized THEN _onScroll(t) ELSE t
       IN  Done(IF a.callback # 0
                THEN [u EXCEPT !.called = @ \cup {a.callback}]
                ELSE u)

ScrollOffsets == 0..(MaxItems * (EstimatedItemHeight + MaxExtraHeight))

(***************************************************************************)
(* Scheduling: every call and event of the view, in both scroll modes,     *)
(* over collections of at most MaxSchedItems models.                       *)
(***************************************************************************)
SchedOptions ==
    [useIScroll : BOOLEAN, modelStoresExpandedState : {FALSE},
     emptyView : {FALSE}, noView : {{}}]

SchedCollections == {c \in Collections : Len(c) <= MaxSchedItems}

SchedIds == 1..(MaxSchedItems + 1)

SchedIndices == 0..(MaxSchedItems - 1)

SchedOffsets == 0..(MaxSchedItems * (EstimatedItemHeight + MaxExtraHeight))

NextSched ==
    \/ Render
    \/ Attach
    \/ Refresh
    \/ UpdatePositions
    \/ \E id \in SchedIds : DiscardExpandedStateById(id)
    \/ \E index \in SchedIndices, callback \in BOOLEAN :
          ScrollToElementByIndex(index, callback)
    \/ \E id \in SchedIds, callback \in BOOLEAN :
          ScrollToElementById(id, callback)
    \/ \E index \in SchedIndices : MakeItemFullyVisibleByIndex(index)
    \/ \E id \in SchedIds : MakeItemFullyVisibleById(id)
    \/ \E collection \in SchedCollections : CollectionChanged(collection)
    \/ \E y \in SchedOffsets : Scroll(y)
    \/ \E clientHeight \in ClientHeights : Resize(clientHeight)
    \/ \E clientHeight \in ClientHeights : ContainerAdded(clientHeight)
    \/ AnimationFrame
    \/ AnimationComplete

SpecSched == InitView(SchedOptions) /\ [][NextSched]_vars

(***************************************************************************)
(* The ledgers: a native-scroll list of up to MaxItems models in a         *)
(* container of positive height, scrolled in steps of ScrollStep pixels,   *)
(* with at most MaxLedgerRequests requests to discard an expanded state.   *)
(***************************************************************************)
LedgerOptions ==
    [useIScroll : {FALSE}, modelStoresExpandedState : BOOLEAN,
     emptyView : {FALSE}, noView : {{}}]

LedgerOffsets == {y \in ScrollOffsets : y % ScrollStep = 0}

LedgerDiscard(id) ==
    /\ hist.nextId < MaxLedgerRequests
    /\ DiscardExpandedStateById(id)

NextLedger ==
    \/ Render
    \/ Attach
    \/ \E id \in ModelIds : LedgerDiscard(id)
    \/ \E collection \in Collections : CollectionChanged(collection)
    \/ \E y \in LedgerOffsets : Scroll(y)
    \/ \E clientHeight \in ClientHeights \ {0} : ContainerAdded(clientHeight)
    \/ AnimationFrame

SpecLedger == InitView(LedgerOptions) /\ [][NextLedger]_vars

(***************************************************************************)
(* The visible range: _getVisibleItems applied to a rendered view with any *)
(* collection, container height and scroll offset, in both scroll modes.   *)
(***************************************************************************)
InitRange ==
    /\ options \in SchedOptions
    /\ \E collection \in Collections \ {<< >>},
          clientHeight \in ClientHeights, y \in ScrollOffsets :
          LET s == render(Joined(initialize,
                                 NewDom(collection, TRUE, clientHeight),
                                 NewHist))
              t == IF options.useIScroll
                   THEN [s EXCEPT !._scroll.y = -y]
                   ELSE [s EXCEPT !.scrollTop = y]
          IN  /\ y <= ScrollLimit(s.contentHeight, s.clientHeight)
              /\ view = ViewOf(t)
              /\ dom = DomOf(t)
              /\ hist = HistOf(t)
    /\ lru = LRUCache(0)
    /\ lruCall = [op |-> "new", arg |-> 0, ret |-> FALSE,
                  pre |-> << >>, removed |-> << >>]
    /\ touches = << >>

GetVisibleItems == Done(_getVisibleItems(World))

NextRange == GetVisibleItems

SpecRange == InitRange /\ [][NextRange]_vars

(***************************************************************************)
(* The stand-alone cache: its removeCallback only records its argument.    *)
(***************************************************************************)
LruValues == 1..MaxLruValue

RECURSIVE forEachRemoved(_, _)
forEachRemoved(cache, removed) ==
    IF removed = << >> THEN cache
    ELSE forEachRemoved(setDelete(cache, Head(removed)), Tail(removed))

InitLRU ==
    /\ options = [useIScroll |-> FALSE, modelStoresExpandedState |-> FALSE,
                  emptyView |-> FALSE, noView |-> {}]
    /\ view = initialize
    /\ dom = NewDom(<< >>, FALSE, 0)
    /\ hist = NewHist
    /\ \E c \in 0..MaxCapacity : lru = LRUCache(c)
    /\ lruCall = [op |-> "new", arg |-> 0, ret |-> FALSE,
                  pre |-> << >>, removed |-> << >>]
    /\ touches = << >>

CachePut(value) ==
    /\ Len(touches) < MaxTouches
    /\ LET p == put(lru, value)
       IN  /\ lru' = forEachRemoved(p.cache, p.removed)
           /\ lruCall' = [op |-> "put", arg |-> value, ret |-> p.ret,
                          pre |-> lru._array, removed |-> p.removed]
    /\ touches' = Append(touches, value)
    /\ UNCHANGED viewVars

CacheSetCapacity(value) ==
    /\ lru' = setCapacity(lru, value)
    /\ lruCall' = [op |-> "setCapacity", arg |-> value, ret |-> FALSE,
                   pre |-> lru._array, removed |-> << >>]
    /\ UNCHANGED <<touches, viewVars>>

CacheClear ==
    /\ lru' = clear(lru)
    /\ lruCall' = [op |-> "clear", arg |-> 0, ret |-> FALSE,
                   pre |-> lru._array, removed |-> << >>]
    /\ touches' = << >>
    /\ UNCHANGED viewVars

NextLRU ==
    \/ \E value \in LruValues : CachePut(value)
    \/ \E value \in 1..MaxCapacity : CacheSetCapacity(value)
    \/ CacheClear

NextLRUFixed == \E value \in LruValues : CachePut(value)

\* put, setCapacity and clear in any order
SpecLRU == InitLRU /\ [][NextLRU]_vars

\* put only: the capacity is the one given at construction
SpecLRUFixed == InitLRU /\ [][NextLRUFixed]_vars

(***************************************************************************)
(* Properties of the cache.                                                *)
(***************************************************************************)
NoDuplicates(s) == \A i, j \in DOMAIN s : s[i] = s[j] => i = j

\* the position of the last put of value in the history
LastTouch(history, value) ==
    CHOOSE i \in DOMAIN history :
        history[i] = value /\ \A j \in DOMAIN history : history[j] = value => j <= i

\* the k most recently put distinct values of a history
RECURSIVE MostRecent(_, _)
MostRecent(history, k) ==
    IF k = 0 \/ history = << >> THEN {}
    ELSE LET last == history[Len(history)]
             rest == SelectSeq(SubSeq(history, 1, Len(history) - 1),
                               LAMBDA x : x # last)
         IN  {last} \cup MostRecent(rest, k - 1)

\* C3: the number of cached values never exceeds the current capacity,
\* whatever the interleaving of put, setCapacity and clear.
C3_SizeWithinCapacity ==
    /\ Cardinality(lru._set) <= lru._capacity
    /\ Len(lru._array) <= lru._capacity

\* C4: with the capacity fixed at construction, after any sequence of puts
\* the cache holds exactly the min(capacity, distinct values put) most
\* recently put distinct values, most recent first.
C4_KeepsMostRecent ==
    LET distinct == Cardinality(Range(touches))
        k == Min(lru._capacity, distinct)
    IN  /\ Range(lru._array) = MostRecent(touches, k)
        /\ lru._set = MostRecent(touches, k)
        /\ Len(lru._array) = k
        /\ \A i, j \in DOMAIN lru._array :
              i < j => LastTouch(touches, lru._array[i])
                         > LastTouch(touches, lru._array[j])

\* capacity 3, puts 1,2,3,4: the cache holds {2,3,4} and 1 was evicted
C4_Witness ==
    /\ lru._capacity = 3
    /\ touches = <<1, 2, 3, 4>>
    /\ lru._set = {2, 3, 4}
    /\ lruCall.removed = <<1>>

\* a put that evicted several values called the callback once per evicted
\* value
EvictedOncePerValue ==
    /\ NoDuplicates(lruCall.removed)
    /\ Range(lruCall.removed) =
          (Range(lruCall.pre) \cup {lruCall.arg}) \ Range(lru._array)
    /\ Range(lruCall.removed) \cap lru._set = {}

EvictedSeveral == lruCall.op = "put" /\ Len(lruCall.removed) >= 2

\* C5 as claimed: when one put evicts several values the callback is invoked
\* once per evicted value, the least recently put value first.
C5_OldestEvictedFirst ==
    EvictedSeveral =>
        /\ EvictedOncePerValue
        /\ \A i, j \in DOMAIN lruCall.removed :
              i < j => LastTouch(touches, lruCall.removed[i])
                         < LastTouch(touches, lruCall.removed[j])

\* C5 amended: when one put evicts several values the callback is invoked
\* once per evicted value, in the order of the array: the most recently put
\* of the evicted values first, the least recently put last.
C5_NewestEvictedFirst ==
    EvictedSeveral =>
        /\ EvictedOncePerValue
        /\ \A i, j \in DOMAIN lruCall.removed :
              i < j => LastTouch(touches, lruCall.removed[i])
                         > LastTouch(touches, lruCall.removed[j])

\* a put of a new value that evicted three cached values after the capacity
\* was lowered
C5_Witness ==
    /\ EvictedSeveral
    /\ Len(lruCall.removed) = 3
    /\ lruCall.arg \notin Range(lruCall.removed)

\* C6: put returns true exactly when the value was absent; a put of a value
\* that is present only moves it to the front: same set, same order of the
\* others, no callback.
C6_PutOfCachedValue ==
    lruCall.op = "put" =>
        /\ lruCall.ret = (lruCall.arg \notin Range(lruCall.pre))
        /\ lruCall.arg \in Range(lruCall.pre) =>
              /\ lru._array = <<lruCall.arg>> \o
                    SelectSeq(lruCall.pre, LAMBDA x : x # lruCall.arg)
              /\ lru._set = Range(lruCall.pre)
              /\ lruCall.removed = << >>

\* a put of a value cached behind two others, while the cache holds more
\* values than its capacity
C6_Witness ==
    /\ lruCall.op = "put"
    /\ ~lruCall.ret
    /\ Len(lruCall.pre) >= 3
    /\ lruCall.pre[3] = lruCall.arg
    /\ Len(lru._array) > lru._capacity


C2_CallbackBeforeNext ==
    \A k \in DOMAIN hist.invoked : hist.invoked[k].uncalled = {}

\* C7: at most one animation-frame callback is pending at any time, and one
\* is pending exactly while _frameRequested is set: the requests made before
\* a frame pass share one callback, and a request made during a pass, after
\* the flag was reset, gets one new callback
C7_OneFramePending ==
    /\ dom.frames <= 1
    /\ view._frameRequested <=> dom.frames = 1

\* a frame pass invoked the second request, which asked for a frame during
\* the pass: one callback is pending
C7_Witness ==
    /\ Len(hist.invoked) = 2
    /\ hist.gate = "invoked"
    /\ view._frameRequested
    /\ dom.frames = 1

(***************************************************************************)
(* The visible range.                                                      *)
(***************************************************************************)
\* the quotients a division by the item height can give
Quotients ==
    (-1 - _getScrollThreshold)..
        (MaxItems * (EstimatedItemHeight + MaxExtraHeight)
            + MaxClientHeight + _getScrollThreshold)

\* the scroll offset _getVisibleItems reads
ScrollOffset ==
    IF options.useIScroll THEN Abs(view._scroll.y) ELSE dom.scrollTop

\* C8: _getVisibleItems sets the visible range to
\* low = max(floor((s - t) / h), 0) and high = min(floor((s + v + t) / h), n - 1),
\* where floor(x / h) is the integer q with q * h <= x < (q + 1) * h, so that
\* low >= 0 and high <= n - 1
C8_VisibleRange ==
    [][GetVisibleItems =>
        LET s == ScrollOffset
            v == dom.clientHeight
            h == _getEstimatedElementHeightWithOffset
            t == _getScrollThreshold
            n == Len(dom.collection)
        IN  /\ \E a, b \in Quotients :
                  /\ a * h <= s - t /\ s - t < (a + 1) * h
                  /\ b * h <= s + v + t /\ s + v + t < (b + 1) * h
                  /\ view'._visibleItems = <<Max(a, 0), Min(b, n - 1)>>
            /\ view'._visibleItems[1] >= 0
            /\ view'._visibleItems[2] <= n - 1]_vars

\* the range was computed for a list scrolled to its end: the low index is
\* above 0 and the high index was cut to n - 1
C8_Witness ==
    /\ view._visibleItems[1] > 0
    /\ view._visibleItems[2] = Len(dom.collection) - 1
    /\ (ScrollOffset + dom.clientHeight + _getScrollThreshold)
          \div _getEstimatedElementHeightWithOffset > Len(dom.collection) - 1

(***************************************************************************)
(* The ledgers.                                                            *)
(***************************************************************************)
\* C9: for two consecutive indices that both have a position, the position
\* of the second is the position of the first plus the height of the first
C9_PositionsChain ==
    \A i \in DOMAIN view._positionsMap :
        i + 1 \in DOMAIN view._positionsMap =>
            view._positionsMap[i + 1] =
                Plus(view._positionsMap[i], MapGet(view._heightsMap, i))

\* C10: every index with an expanded height has a recorded height, and an
\* index with a recorded height has an expanded height if and only if its
\* recorded height is not the estimated height
C10_ExpandedWithinHeights ==
    /\ DOMAIN view._expandedHeightsMap \subseteq DOMAIN view._heightsMap
    /\ \A i \in DOMAIN view._heightsMap :
          i \in DOMAIN view._expandedHeightsMap
            <=> view._heightsMap[i] # _getEstimatedElementHeightWithOffset

\* C10: an index with a recorded height has an expanded height if and only
\* if its recorded height is not the estimated height, and then the two are
\* equal; an index with an expanded height and no recorded height is the
\* index of an item that is not materialized
C10_ExpandedMatchesHeight ==
    /\ \A i \in DOMAIN view._heightsMap :
          /\ i \in DOMAIN view._expandedHeightsMap
                <=> view._heightsMap[i] # _getEstimatedElementHeightWithOffset
          /\ i \in DOMAIN view._expandedHeightsMap
                => view._expandedHeightsMap[i] = view._heightsMap[i]
    /\ \A i \in DOMAIN view._expandedHeightsMap :
          i \notin DOMAIN view._heightsMap => i \notin view._views

\* an expanded item was evicted from the cache and its expanded height
\* stays, while another item is materialized with an expanded height
C10_Witness ==
    /\ \E i \in DOMAIN view._expandedHeightsMap :
          i \notin DOMAIN view._heightsMap
    /\ \E i \in DOMAIN view._expandedHeightsMap :
          i \in DOMAIN view._heightsMap

(***************************************************************************)
(* What a handler did, read from its log.                                  *)
(***************************************************************************)
\* the state the next handler starts from when a handler ended in s
After(s) == Joined(ViewOf(s), DomOf(s), HistOf(s))

\* entry k of the log says that what happened to index
IsOn(log, k, what, index) == log[k].what = what /\ log[k].which = index

\* the indices the handler evicted and did not create again afterwards
Gone(log) ==
    {e \in ItemIndices :
        \E k \in DOMAIN log :
            /\ IsOn(log, k, "evicted", e)
            /\ \A j \in DOMAIN log : j > k => ~IsOn(log, j, "created", e)}

\* the heights the elements of the views have when nothing changed them
\* since they were recorded
Recorded(s) ==
    [i \in s._views \cap DOMAIN s._heightsMap |->
        MapGet(s._heightsMap, i) - ElementsOffset]

\* index has no entry in the registry and the position and height ledgers
Absent(s, index) ==
    /\ index \notin s._views
    /\ index \notin DOMAIN s._positionsMap
    /\ index \notin DOMAIN s._heightsMap

\* C11: a frame pass runs the eviction callback exactly once for every
\* index its touches evict, right at the eviction; at the end of the pass
\* an evicted index that was not materialized again has no View, Position
\* or Height entry, and a request to discard an expanded state invoked
\* after the pass does not give it one.
C11_EvictedOnceAndAbsent ==
    dom.frames > 0 =>
        \A heights \in [FrameMeasures -> ElementHeights] :
            LET t == _update([World EXCEPT !.frames = @ - 1], heights)
                log == t.log
            IN  /\ \A k \in DOMAIN log :
                      log[k].what = "evicted" =>
                          /\ k < Len(log)
                          /\ IsOn(log, k + 1, "removed", log[k].which)
                /\ \A k \in DOMAIN log :
                      log[k].what = "removed" =>
                          /\ k > 1
                          /\ IsOn(log, k - 1, "evicted", log[k].which)
                /\ \A e \in Gone(log) : Absent(t, e)
                /\ \A id \in ModelIds, e \in Gone(log) :
                      Absent(_addFunctionRequest(After(t),
                                "_discardExpandedStateById", id, FALSE,
                                Recorded(t)), e)

(***************************************************************************)
(* Empty mode.                                                             *)
(***************************************************************************)
\* a frame pass on s after a call of render(), every new element measuring
\* the estimated height
NextPass(s) ==
    _update([render(s) EXCEPT !.frames = @ - 1],
            [i \in ItemIndices |-> EstimatedItemHeight])

\* the log creates a view for an index that is in views and that the log
\* did not evict before
CreatesAgain(log, views) ==
    \E k \in DOMAIN log :
        /\ log[k].what = "created"
        /\ log[k].which \in views
        /\ \A j \in DOMAIN log : j < k => ~IsOn(log, j, "evicted", log[k].which)

\* C12: the frame pass after a reset to an empty collection enters empty
\* mode with the registry, the cache and the ledgers empty; the frame pass
\* after a reset to a collection that is not empty leaves empty mode and
\* materializes every index of the visible range; the pass after that one
\* materializes only indices that are not materialized.
C12_EmptyModeAndBack ==
    (view._initialized /\ dom.frames > 0) =>
        \A heights \in [FrameMeasures -> ElementHeights] :
            LET t == _update([World EXCEPT !.frames = @ - 1], heights)
            IN  /\ Len(dom.collection) = 0 =>
                      /\ t._isEmptyView
                      /\ t._views = {}
                      /\ t._indicesCache._array = << >>
                      /\ t._indicesCache._set = {}
                      /\ t._positionsMap = EmptyMap
                      /\ t._heightsMap = EmptyMap
                      /\ t._expandedHeightsMap = EmptyMap
                /\ (Len(dom.collection) > 0 /\ view._isEmptyView) =>
                      /\ ~t.threw
                      /\ ~t._isEmptyView
                      /\ VisibleIndices(t) \subseteq t._views
                      /\ ~CreatesAgain(NextPass(After(t)).log, t._views)

(***************************************************************************)
(* Collection changes.                                                     *)
(***************************************************************************)
\* C13: an 'update' or 'reset' of the collection that reaches an initialized
\* view empties the registry, the cache, the three ledgers and the
\* render-complete callback queue, calls the eviction callback for no
\* index, leaves the function-request queue as it is and leaves exactly one
\* frame pending; before initialization it changes nothing and asks for no
\* frame.
C13_CollectionChanged ==
    \A collection \in SchedCollections \ {dom.collection} :
        LET s == [World EXCEPT !.collection = collection]
            t == _onCollectionChanged(s)
        IN  IF view._initialized
            THEN /\ ~t.threw
                 /\ t._views = {}
                 /\ t._indicesCache._array = << >>
                 /\ t._indicesCache._set = {}
                 /\ t._positionsMap = EmptyMap
                 /\ t._heightsMap = EmptyMap
                 /\ t._expandedHeightsMap = EmptyMap
                 /\ t._renderCallbackQueue = << >>
                 /\ \A k \in DOMAIN t.log :
                       t.log[k].what \notin {"evicted", "removed"}
                 /\ t._functionsQueue = view._functionsQueue
                 /\ t._isFunctionActive = view._isFunctionActive
                 /\ t.frames = 1
                 /\ t._frameRequested
            ELSE /\ ViewOf(t) = view
                 /\ DomOf(t) = DomOf(s)
                 /\ ~t.threw

\* the collection of an initialized view can change while views are
\* materialized, a render-complete callback waits and a request is queued,
\* with no frame pending or with one
C13_Witness ==
    /\ view._initialized
    /\ view._views # {}
    /\ view._indicesCache._array # << >>
    /\ view._renderCallbackQueue # << >>
    /\ view._functionsQueue # << >>
    /\ SchedCollections \ {dom.collection} # {}

(***************************************************************************)
(* Discarding an expanded state.                                           *)
(***************************************************************************)
\* the heights of the elements when the item at index has been collapsed
\* and nothing else changed since the heights were recorded
Collapsed(s, index) ==
    [i \in DOMAIN Recorded(s) |->
        IF i = index THEN EstimatedItemHeight ELSE Recorded(s)[i]]

\* C14: _discardExpandedStateById for an index that is in the
\* Expanded-Height Ledger and the Height Ledger ends without an exception,
\* removes the index from the Expanded-Height Ledger, records the estimated
\* height for it and lowers the recorded position of every higher index
\* with a Position Ledger entry by the old height minus the estimate,
\* whatever the set of materialized indices is.
C14_DiscardShiftsPositions ==
    \A id \in ModelIds :
        LET index == getIndexById(World, id)
            old == MapGet(view._heightsMap, index)
            u == _discardExpandedStateById(World, id, Collapsed(World, index))
        IN  (/\ ~view._isFunctionActive
             /\ view._views = view._indicesCache._set
             /\ VisibleIndices(view) \subseteq view._views
             /\ index # Null
             /\ MapHas(view._expandedHeightsMap, index)
             /\ MapHas(view._heightsMap, index)) =>
                /\ ~u.threw
                /\ ~MapHas(u._expandedHeightsMap, index)
                /\ MapGet(u._heightsMap, index)
                     = _getEstimatedElementHeightWithOffset
                /\ \A j \in DOMAIN view._positionsMap :
                      j > index =>
                          /\ MapHas(u._positionsMap, j)
                          /\ MapGet(u._positionsMap, j)
                               = MapGet(view._positionsMap, j)
                                   - (old - _getEstimatedElementHeightWithOffset)

(***************************************************************************)
(* A model without a view type: the list of SpecSched whose childView      *)
(* returns null for the model with id 1, with native scroll.               *)
(***************************************************************************)
SkipOptions ==
    [useIScroll : {FALSE}, modelStoresExpandedState : {FALSE},
     emptyView : {FALSE}, noView : {{1}}]

SpecSkip == InitView(SkipOptions) /\ [][NextSched]_vars

\* the indices _createItem has skipped: touched, the model has no view type
Skipped(s) ==
    {i \in s._indicesCache._set \ s._views :
        i < Len(s.collection) /\ childViewIsNull(s, i)}

\* C15: an index whose model has no view type gets no registry or ledger
\* entry, and no later frame pass, forced redraw after refresh() or
\* updatePositions dereferences the missing view of a skipped index.
C15_NullChildViewSkipped ==
    /\ \A i \in view._views \cup DOMAIN view._positionsMap
                  \cup DOMAIN view._heightsMap
                  \cup DOMAIN view._expandedHeightsMap :
          i < Len(dom.collection) => ~childViewIsNull(World, i)
    /\ \A i \in Skipped(World) :
          view._initialized =>
          /\ dom.frames > 0 =>
                \A heights \in [FrameMeasures -> ElementHeights] :
                    _update([World EXCEPT !.frames = @ - 1], heights).missing # i
          /\ NextPass(After(refresh(World))).missing # i
          /\ ~view._isFunctionActive =>
                _addFunctionRequest(World, "_updatePositions", Null, FALSE,
                                    Recorded(World)).missing # i

(***************************************************************************)
(* Requests with an id that no model has.                                  *)
(***************************************************************************)
\* the handler that ended in t left the scroll offset, the registry, the
\* cache and the ledgers as they are in the current state, and did not throw
NoOp(t) ==
    /\ ~t.threw
    /\ t.scrollTop = dom.scrollTop
    /\ t.animations = dom.animations
    /\ t._scroll = view._scroll
    /\ t._views = view._views
    /\ t._indicesCache = view._indicesCache
    /\ t._positionsMap = view._positionsMap
    /\ t._heightsMap = view._heightsMap
    /\ t._expandedHeightsMap = view._expandedHeightsMap

\* C16: scrollToElementById, makeItemFullyVisibleById and
\* discardExpandedStateById with an id that no model of the collection has,
\* processed at once by an initialized view, leave the scroll offset, the
\* registry, the cache and the three ledgers as they were.
C16_UnknownIdNoOp ==
    \A id \in SchedIds :
        (/\ view._initialized
         /\ ~view._isFunctionActive
         /\ getIndexById(World, id) = Null) =>
            /\ \A callback \in BOOLEAN :
                  NoOp(_addFunctionRequest(World, "_scrollToElementByIndex",
                            getIndexById(World, id), callback, << >>))
            /\ NoOp(_addFunctionRequest(World, "_makeItemFullyVisible",
                            getIndexById(World, id), FALSE, << >>))
            /\ NoOp(_addFunctionRequest(World, "_discardExpandedStateById",
                            id, FALSE, Recorded(World)))

(***************************************************************************)
(* Before the container exists.                                            *)
(***************************************************************************)
\* the handler that ended in t did not throw and left the registry, the
\* cache and the ledgers as they are in the current state
SameItems(t) ==
    /\ ~t.threw
    /\ t._views = view._views
    /\ t._indicesCache = view._indicesCache
    /\ t._positionsMap = view._positionsMap
    /\ t._heightsMap = view._heightsMap
    /\ t._expandedHeightsMap = view._expandedHeightsMap

\* render() and the frame pass it asks for
RenderAndPass == NextPass(World)

\* C17: while the container element does not exist and the collection has
\* models, render() and the frame pass it schedules, and every public queued
\* operation on an index of the collection, end without an exception and
\* change no per-item state; _onAttach on an initialized view changes
\* nothing.
C17_NoOpBeforeContainer ==
    /\ (~dom.containerExists /\ Len(dom.collection) > 0) =>
          /\ ~view._initialized
          /\ SameItems(render(World))
          /\ SameItems(RenderAndPass)
          /\ ~view._isFunctionActive =>
                /\ SameItems(_addFunctionRequest(World, "_updatePositions",
                                Null, FALSE, Recorded(World)))
                /\ \A id \in SchedIds :
                      SameItems(_addFunctionRequest(World,
                                "_discardExpandedStateById", id, FALSE,
                                Recorded(World)))
                /\ \A index \in SchedIndices \cap 0..(Len(dom.collection) - 1) :
                      /\ SameItems(_addFunctionRequest(World,
                                "_scrollToElementByIndex", index, FALSE, << >>))
                      /\ SameItems(_addFunctionRequest(World,
                                "_makeItemFullyVisible", index, FALSE, << >>))
    /\ view._initialized =>
          /\ ViewOf(_onAttach(World)) = view
          /\ DomOf(_onAttach(World)) = dom

(***************************************************************************)
(* Firing the render-complete callbacks.                                   *)
(***************************************************************************)
\* the callbacks that the log entries after entry k say what happened to
Entries(log, k, what) ==
    LET rest == SubSeq(log, k + 1, Len(log))
        IsWhat(e) == e.what = what
        hits == SelectSeq(rest, IsWhat)
    IN  [i \in DOMAIN hits |-> hits[i].which]

\* C18: a frame pass that fires the render-complete callbacks calls the
\* callbacks that are in the queue when the firing begins, each once and in
\* queue order, and leaves in the queue exactly the callbacks added while
\* it was firing, which it does not call.
C18_FiresQueuedOnce ==
    dom.frames > 0 =>
        \A heights \in [FrameMeasures -> ElementHeights] :
            LET t == _update([World EXCEPT !.frames = @ - 1], heights)
            IN  \A k \in DOMAIN t.log :
                    t.log[k].what = "firing" =>
                        /\ Entries(t.log, k, "called") = t.log[k].which
                        /\ t._renderCallbackQueue = Entries(t.log, k, "added")
                        /\ Entries(t.log, k, "firing") = << >>

(***************************************************************************)
(* The registry and the ledgers.                                           *)
(***************************************************************************)
\* C19: between operations every index with a View Registry entry has a
\* Position Ledger entry and a Height Ledger entry.
C19_ViewsHaveLedgerEntries ==
    \A index \in view._views :
        /\ MapHas(view._positionsMap, index)
        /\ MapHas(view._heightsMap, index)

\* views are materialized after the cache has evicted an expanded item,
\* whose expanded height is still recorded
C19_Witness ==
    /\ Cardinality(view._views) >= 2
    /\ \E index \in DOMAIN view._expandedHeightsMap :
          /\ index \notin view._views
          /\ index \notin view._indicesCache._set
          /\ index < Len(dom.collection)

(***************************************************************************)
(* The end of a function request.                                          *)
(***************************************************************************)
\* _onFunctionRequestFinished waits in the render-complete callback queue
FinishQueued(v) ==
    \E k \in DOMAIN v._renderCallbackQueue :
        v._renderCallbackQueue[k].kind = "finish"

\* C20: every enqueued request is invoked in the end, for a later frame
\* pass always clears the active flag. Only _onFunctionRequestFinished
\* clears the flag, so the claim needs this: while a request is active, its
\* finishing callback, once in the render-complete callback queue, stays
\* there, also over a pass on an empty collection and over a collection
\* change.
C20_FinishingCallbackKept ==
    [][(/\ view._isFunctionActive
        /\ FinishQueued(view)
        /\ view'._isFunctionActive) => FinishQueued(view')]_vars

(***************************************************************************)
(* The list shown and scrolled: the list of SpecLedger without function    *)
(* requests.                                                               *)
(***************************************************************************)
NextShow ==
    \/ Render
    \/ Attach
    \/ \E collection \in Collections : CollectionChanged(collection)
    \/ \E y \in LedgerOffsets : Scroll(y)
    \/ \E clientHeight \in ClientHeights \ {0} : ContainerAdded(clientHeight)
    \/ AnimationFrame

SpecShow == InitView(LedgerOptions) /\ [][NextShow]_vars

\* C21: childView returning a view for every model, between frame passes
\* an index has a View Registry entry if and only if it is in the cache,
\* and a frame pass creates no view for an index that has one.
C21_ViewsAreCached ==
    /\ view._views = view._indicesCache._set
    /\ dom.frames > 0 =>
          \A heights \in [FrameMeasures -> ElementHeights] :
              ~CreatesAgain(
                  _update([World EXCEPT !.frames = @ - 1], heights).log,
                  view._views)

(***************************************************************************)
(* The visible range and the cache capacity.                               *)
(***************************************************************************)
\* the visible range that the handler computed, as the set of its indices,
\* when its log says that it computed one
Ranged(log) ==
    {log[k].which[1]..log[k].which[2] :
        k \in {j \in DOMAIN log : log[j].what = "ranged"}}

\* C22: childView returning a view for every model, after a frame pass
\* over a collection that is not empty every index of the visible range
\* that the pass computed has a View Registry entry, and the range has at
\* most as many indices as the capacity of the cache during the pass.
C22_VisibleRangeMaterialized ==
    (dom.frames > 0 /\ Len(dom.collection) > 0) =>
        \A heights \in [FrameMeasures -> ElementHeights] :
            LET t == _update([World EXCEPT !.frames = @ - 1], heights)
            IN  \A range \in Ranged(t.log) :
                    /\ range \subseteq t._views
                    /\ Cardinality(range) <= t._indicesCache._capacity

(***************************************************************************)
(* _updatePositions and the stored visible range.                          *)
(***************************************************************************)
\* C23: when updatePositions() is called on an initialized view with a
\* collection that is not empty and no request active, so that
\* _updatePositions runs at once, every index of the stored visible range
\* has a View Registry entry and the call dereferences no missing view.
C23_UpdatePositionsFindsViews ==
    (/\ view._initialized
     /\ ~view._isFunctionActive
     /\ Len(dom.collection) > 0) =>
        /\ VisibleIndices(view) \subseteq view._views
        /\ _addFunctionRequest(World, "_updatePositions", Null, FALSE,
                               Recorded(World)).missing = Null

(***************************************************************************)
(* Evictions of a frame pass and the range the pass computed.              *)
(***************************************************************************)
Evicted(log) ==
    {log[k].which : k \in {j \in DOMAIN log : log[j].what = "removed"}}

\* C24: during a frame pass the eviction callback is never invoked for an
\* index of the visible range computed by that pass, whichever way the
\* range moved.
C24_NoEvictionInsideRange ==
    dom.frames > 0 =>
        \A heights \in [FrameMeasures -> ElementHeights] :
            LET t == _update([World EXCEPT !.frames = @ - 1], heights)
            IN  \A range \in Ranged(t.log) : Evicted(t.log) \cap range = {}

====
